---- MODULE Spec2Model ----
(***************************************************************************)
(* Environmental Monitor (src/main.c): argument parsing, the driver loop,  *)
(* the seismic pipeline with its alerted-ID ring, the lightning pipeline   *)
(* and the display renderer with its storm-active latch.                   *)
(*                                                                         *)
(* Numbers.  Magnitudes, thresholds, latitudes and longitudes are C        *)
(* floating-point values in the source; here they are integers counting    *)
(* hundredths (6.0 is 600, 54.53 is 5453), and every value used is one     *)
(* that float and double both hold exactly enough for the comparisons.     *)
(* Strings.  Identifiers and places are shorter than their buffers         *)
(* (64 and 256 bytes), so strncpy copies them whole and NUL-pads the rest. *)
(***************************************************************************)
EXTENDS Integers, Sequences, FiniteSets, TLC

VARIABLES
    argv,                   \* argv[1..argc-1]: the command-line arguments
    argi,                   \* main's loop index i over argv
    min_magnitude,          \* main: float min_magnitude
    alert_threshold,        \* main: float alert_threshold
    unknown_args,           \* arguments reported by "Unknown argument: %s"
    g_latitude,
    g_longitude,
    pc,                     \* position of main: args, seismic, lightning, render, sleep
    g_quakes,               \* Earthquake g_quakes[MAX_QUAKES], slots 1..MAX_QUAKES
    g_quake_count,
    g_alerted_ids,          \* char g_alerted_ids[MAX_ALERTED_IDS][64], slots 1..MAX_ALERTED_IDS
    g_alerted_ids_count,
    g_weather_code,
    g_hourly_weather_codes, \* int g_hourly_weather_codes[6], indices 0..5
    g_is_storm_active,
    bells,                  \* identifiers of the "\a" written by check_for_quake_alerts this cycle
    storm_bell,             \* TRUE iff render_display wrote "\a" this cycle
    banner,                 \* the lightning banner on the screen: none, warning, watch, clear
    feed,                   \* the seismic response received this cycle (history)
    hist,                   \* per identifier: the alerts and evictions seen so far (history)
    forecast,               \* outcome of this cycle's lightning fetch (history)
    steady                  \* the feed the upstream has settled on, if it has (environment)

vars == <<argv, argi, min_magnitude, alert_threshold, unknown_args, g_latitude,
          g_longitude, pc, g_quakes, g_quake_count, g_alerted_ids,
          g_alerted_ids_count, g_weather_code, g_hourly_weather_codes,
          g_is_storm_active, bells, storm_bell, banner, feed, hist, forecast,
          steady>>

cfgVars == <<min_magnitude, alert_threshold, unknown_args, g_latitude, g_longitude>>
seismicVars == <<g_quakes, g_quake_count, g_alerted_ids, g_alerted_ids_count>>
weatherVars == <<g_weather_code, g_hourly_weather_codes>>

----------------------------------------------------------------------------
(* Program constants and model bounds *)

MAJOR_QUAKE_THRESHOLD == 600
LIGHTNING_ALERT_CODE_1 == 95
LIGHTNING_ALERT_CODE_2 == 96
LIGHTNING_ALERT_CODE_3 == 99
HOURLY_SLOTS == 6
DEFAULT_LATITUDE == 5453
DEFAULT_LONGITUDE == -105

\* MAX_QUAKES (200 in the source) and MAX_ALERTED_IDS (50 in the source),
\* scaled down; the source has MAX_QUAKES > MAX_ALERTED_IDS and so has the model.
MAX_QUAKES == 3
MAX_ALERTED_IDS == 2

MaxArgs == 3                \* longest argument list of SpecArgs

----------------------------------------------------------------------------
(* Argument parsing: main, lines 81-100 *)

ArgTokens == {"-q", "-l", "test", "5", "-3", "x"}

\* atof: the value of the longest numeric prefix, 0 when there is none.
Atof(s) ==
    CASE s = "5" -> 500
      [] s = "7" -> 700
      [] s = "-3" -> -300
      [] s = "40.71" -> 4071
      [] s = "-74.00" -> -7400
      [] OTHER -> 0

\* A "-q" branch that leaves the alert threshold alone.
ParseOne_QKeepsThreshold(args, i, c) ==
    IF args[i] = "-q" /\ i + 1 <= Len(args) THEN
        LET m == IF Atof(args[i + 1]) < 0 THEN 0 ELSE Atof(args[i + 1])
        IN  [c EXCEPT !.min = m, !.i = i + 2]
    ELSE IF args[i] = "-l" /\ i + 2 <= Len(args) THEN
        [c EXCEPT !.lat = Atof(args[i + 1]), !.lon = Atof(args[i + 2]), !.i = i + 3]
    ELSE IF args[i] = "test" THEN
        [c EXCEPT !.thr = 0, !.i = i + 1]
    ELSE
        [c EXCEPT !.unknown = Append(c.unknown, args[i]), !.i = i + 1]

\* One iteration of the for loop at lines 85-100 on argument args[i];
\* c holds min_magnitude, alert_threshold, lat, lon and the reported arguments.
ParseOne(args, i, c) ==
    IF args[i] = "-q" /\ i + 1 <= Len(args) THEN
        LET m == IF Atof(args[i + 1]) < 0 THEN 0 ELSE Atof(args[i + 1])
        IN  [c EXCEPT !.min = m, !.thr = m, !.i = i + 2]
    ELSE IF args[i] = "-l" /\ i + 2 <= Len(args) THEN
        [c EXCEPT !.lat = Atof(args[i + 1]), !.lon = Atof(args[i + 2]), !.i = i + 3]
    ELSE IF args[i] = "test" THEN
        [c EXCEPT !.thr = 0, !.i = i + 1]
    ELSE
        [c EXCEPT !.unknown = Append(c.unknown, args[i]), !.i = i + 1]

ParseArg ==
    /\ pc = "args"
    /\ argi <= Len(argv)
    /\ LET c == ParseOne(argv, argi,
                    [min |-> min_magnitude, thr |-> alert_threshold,
                     lat |-> g_latitude, lon |-> g_longitude,
                     unknown |-> unknown_args, i |-> argi])
       IN  /\ min_magnitude' = c.min
           /\ alert_threshold' = c.thr
           /\ g_latitude' = c.lat
           /\ g_longitude' = c.lon
           /\ unknown_args' = c.unknown
           /\ argi' = c.i
    /\ UNCHANGED <<argv, pc, seismicVars, weatherVars, g_is_storm_active,
                   bells, storm_bell, banner, feed, hist, forecast, steady>>

\* Lines 102-107: the loop over argv has ended, the driver loop begins.
StartMonitor ==
    /\ pc = "args"
    /\ argi > Len(argv)
    /\ pc' = "seismic"
    /\ UNCHANGED <<argv, argi, cfgVars, seismicVars, weatherVars,
                   g_is_storm_active, bells, storm_bell, banner, feed, hist,
                   forecast, steady>>

----------------------------------------------------------------------------
(* JSON values as jansson hands them out *)

JReal(n) == [t |-> "real", n |-> n, s |-> ""]
JInt(n) == [t |-> "integer", n |-> n, s |-> ""]
JStr(s) == [t |-> "string", n |-> 0, s |-> s]
JNull == [t |-> "null", n |-> 0, s |-> ""]

\* json_real_value: 0.0 unless the value is a JSON real.
json_real_value(j) == IF j.t = "real" THEN j.n ELSE 0
\* json_integer_value: 0 unless the value is a JSON integer.
json_integer_value(j) == IF j.t = "integer" THEN j.n ELSE 0
\* json_string_value returns NULL unless the value is a JSON string.
json_is_string(j) == j.t = "string"

\* C integer division truncates toward zero.
CDiv(a, b) == IF a >= 0 THEN a \div b ELSE -((-a) \div b)

----------------------------------------------------------------------------
(* Time formatter: format_time_ago, lines 274-279 *)

\* char time_ago[20], line 51.
TIME_AGO_SIZE == 20

\* snprintf into a buffer of buffer_size bytes: at most buffer_size - 1 characters.
snprintf(buffer_size, str) ==
    IF Len(str) < buffer_size THEN str ELSE SubSeq(str, 1, buffer_size - 1)

\* A formatter that switches to hours from 3600 seconds on.
format_time_ago_WithHours(event_time_ms, now) ==
    LET diff_s == now - CDiv(event_time_ms, 1000)
    IN  IF diff_s < 60 THEN snprintf(TIME_AGO_SIZE, ToString(diff_s) \o "s ago")
        ELSE IF diff_s < 3600
             THEN snprintf(TIME_AGO_SIZE, ToString(CDiv(diff_s, 60)) \o "m ago")
             ELSE snprintf(TIME_AGO_SIZE, ToString(CDiv(diff_s, 3600)) \o "h ago")

format_time_ago(event_time_ms, now) ==
    LET diff_s == now - CDiv(event_time_ms, 1000)
    IN  IF diff_s < 60 THEN snprintf(TIME_AGO_SIZE, ToString(diff_s) \o "s ago")
        ELSE snprintf(TIME_AGO_SIZE, ToString(CDiv(diff_s, 60)) \o "m ago")

----------------------------------------------------------------------------
(* Seismic pipeline: fetch_seismic_data, lines 139-183 *)

ZeroQuake == [mag |-> 0, place |-> "", time_ago |-> "", id |-> ""]

\* A scan that keeps every feature.
Retained_NoFilter(mag, minmag) == TRUE

\* Line 164: the display filter.
Retained(mag, minmag) == mag >= minmag

\* A loop guard that stops the scan one record short of the capacity.
HasRoom_OneShort(count) == count < MAX_QUAKES - 1

\* Line 159: the loop guard on the list capacity.
HasRoom(count) == count < MAX_QUAKES

\* Lines 165-171: the record written into slot g_quakes[g_quake_count], whose
\* previous content is old; place and id are copied only when the feed has them.
StoreQuake(old, mag, properties, now) ==
    [mag |-> mag,
     place |-> IF json_is_string(properties.place) THEN properties.place.s ELSE old.place,
     id |-> IF json_is_string(properties.id) THEN properties.id.s ELSE old.id,
     time_ago |-> format_time_ago(json_integer_value(properties.time), now)]

\* Lines 159-174: the scan of the features array from index i on.
RECURSIVE ScanFeatures(_, _, _, _, _, _)
ScanFeatures(features, i, quakes, count, minmag, now) ==
    IF i > Len(features) \/ ~HasRoom(count) THEN [quakes |-> quakes, count |-> count]
    ELSE LET properties == features[i]
             mag == json_real_value(properties.mag)
         IN  IF Retained(mag, minmag)
             THEN ScanFeatures(features, i + 1,
                      [quakes EXCEPT ![count + 1] = StoreQuake(@, mag, properties, now)],
                      count + 1, minmag, now)
             ELSE ScanFeatures(features, i + 1, quakes, count, minmag, now)

\* A comparator with the two results exchanged.
compare_quakes_Ascending(quakeA, quakeB) ==
    IF quakeA.mag < quakeB.mag THEN -1
    ELSE IF quakeA.mag > quakeB.mag THEN 1
    ELSE 0

\* compare_quakes, lines 281-287.
compare_quakes(quakeA, quakeB) ==
    IF quakeA.mag < quakeB.mag THEN 1
    ELSE IF quakeA.mag > quakeB.mag THEN -1
    ELSE 0

Perms(n) == {p \in [1..n -> 1..n] : \A a, b \in 1..n : p[a] = p[b] => a = b}

\* qsort(g_quakes, g_quake_count, ..., compare_quakes), line 175: some
\* rearrangement of the first n slots that is ordered by the comparator; the
\* order of equal elements is unspecified, so every such rearrangement.
qsort(quakes, n) ==
    {[k \in 1..MAX_QUAKES |-> IF k <= n THEN quakes[p[k]] ELSE quakes[k]] :
        p \in {p \in Perms(n) :
                 \A k \in 1..(n - 1) : compare_quakes(quakes[p[k]], quakes[p[k + 1]]) <= 0}}

----------------------------------------------------------------------------
(* Alert dispatch: check_for_quake_alerts, lines 289-310 *)

\* Line 291: the alert threshold test.
Eligible(mag, thr) == mag >= thr

\* A lookup that stops one slot short of the newest entry.
AlreadyAlerted_SkipsNewest(id, ids, n) == \E j \in 1..(n - 1) : ids[j] = id

\* Lines 292-298: the lookup in the first n slots of the ring.
AlreadyAlerted(id, ids, n) == \E j \in 1..n : ids[j] = id

\* An insertion that, when the ring is full, overwrites the newest entry.
InsertId_OverwritesNewest(ids, n, id) ==
    IF n < MAX_ALERTED_IDS
    THEN [ids |-> [ids EXCEPT ![n + 1] = id], n |-> n + 1, evicted |-> <<>>]
    ELSE [ids |-> [ids EXCEPT ![MAX_ALERTED_IDS] = id], n |-> n,
          evicted |-> <<ids[MAX_ALERTED_IDS]>>]

\* An insertion that, when the ring is full, shifts every slot up by one,
\* dropping the newest entry, and stores at the front.
InsertId_DropsNewest(ids, n, id) ==
    IF n < MAX_ALERTED_IDS
    THEN [ids |-> [ids EXCEPT ![n + 1] = id], n |-> n + 1, evicted |-> <<>>]
    ELSE [ids |-> [k \in 1..MAX_ALERTED_IDS |-> IF k = 1 THEN id ELSE ids[k - 1]],
          n |-> n, evicted |-> <<ids[MAX_ALERTED_IDS]>>]

\* Lines 301-306: append, or shift every slot down by one and store at the
\* end; evicted is the identifier that left the ring, if any.
InsertId(ids, n, id) ==
    IF n < MAX_ALERTED_IDS
    THEN [ids |-> [ids EXCEPT ![n + 1] = id], n |-> n + 1, evicted |-> <<>>]
    ELSE [ids |-> [k \in 1..MAX_ALERTED_IDS |->
                      IF k < MAX_ALERTED_IDS THEN ids[k + 1] ELSE id],
          n |-> n, evicted |-> <<ids[1]>>]

\* The loop at lines 290-309 from quake i on.  events lists, for each "\a",
\* the identifier alerted and the identifier the insertion pushed out, if any.
RECURSIVE CheckAlerts(_, _, _, _, _, _, _)
CheckAlerts(i, quakes, count, thr, ids, n, events) ==
    IF i > count THEN [ids |-> ids, n |-> n, events |-> events]
    ELSE IF Eligible(quakes[i].mag, thr) /\ ~AlreadyAlerted(quakes[i].id, ids, n)
         THEN LET r == InsertId(ids, n, quakes[i].id)
                  ev == [id |-> quakes[i].id, evicted |-> r.evicted]
              IN  CheckAlerts(i + 1, quakes, count, thr, r.ids, r.n, Append(events, ev))
         ELSE CheckAlerts(i + 1, quakes, count, thr, ids, n, events)

\* A dispatch that forgets every alerted identifier when the list is empty.
check_for_quake_alerts_ExpiresOnEmptyList(quakes, count, thr, ids, n) ==
    IF count = 0 THEN [ids |-> ids, n |-> 0, events |-> <<>>]
    ELSE CheckAlerts(1, quakes, count, thr, ids, n, <<>>)

check_for_quake_alerts(quakes, count, thr, ids, n) ==
    CheckAlerts(1, quakes, count, thr, ids, n, <<>>)

----------------------------------------------------------------------------
(* History of alerts, kept to state the claims about repeated alerts *)

IdNames == {"id" \o ToString(k) : k \in 1..(MAX_ALERTED_IDS + 1)}
IdStrings == IdNames \cup {""}

NoHist == [seen |-> FALSE, since |-> {}, evicted |-> FALSE, realerts |-> {}]

Min(a, b) == IF a <= b THEN a ELSE b

\* h after one "\a": for the identifier alerted, a repeated alert is recorded
\* with the number of distinct identifiers alerted since its previous alert
\* (counted up to MAX_ALERTED_IDS) and whether it had been pushed out of the ring.
RecordEvent(h, ev) ==
    [y \in DOMAIN h |->
        IF y = ev.id
        THEN [seen |-> TRUE, since |-> {}, evicted |-> FALSE,
              realerts |-> IF h[y].seen
                           THEN h[y].realerts \cup
                                {<<Min(Cardinality(h[y].since), MAX_ALERTED_IDS), h[y].evicted>>}
                           ELSE h[y].realerts]
        ELSE IF h[y].seen
             THEN [h[y] EXCEPT !.since = @ \cup {ev.id},
                               !.evicted = @ \/ ev.evicted = <<y>>]
             ELSE h[y]]

RECURSIVE RecordEvents(_, _)
RecordEvents(h, events) ==
    IF events = <<>> THEN h
    ELSE RecordEvents(RecordEvent(h, Head(events)), Tail(events))

----------------------------------------------------------------------------
(* The seismic refresh as one step of the driver loop, line 110 *)

NoFeed == [status |-> "none", features |-> <<>>, now |-> 0]

\* The body was fetched and decoded (lines 153 and 157).
Decoded(resp) == resp.status \in {"ok", "nofeatures"}

\* json_object_get(root, "features"); json_array_size of a missing array is 0.
FeaturesOf(resp) == IF resp.status = "ok" THEN resp.features ELSE <<>>

\* A fetch that starts without clearing the list.
CountAtFetchStart_Stale(count) == count

\* Line 143: g_quake_count = 0 before anything is fetched.
CountAtFetchStart(count) == 0

NotSteady == [on |-> FALSE, features |-> <<>>, n |-> 0]

\* The upstream settles: from now on every fetch succeeds and returns feed f.
BecomeSteady(Feeds) ==
    /\ pc = "seismic"
    /\ ~steady.on
    /\ \E f \in Feeds : steady' = [on |-> TRUE, features |-> f, n |-> 0]
    /\ UNCHANGED <<argv, argi, cfgVars, pc, seismicVars, weatherVars,
                   g_is_storm_active, bells, storm_bell, banner, feed, hist, forecast>>

\* What the upstream can answer: any of Responses until it has settled, the
\* feed it settled on afterwards.
Upstream(Responses) ==
    IF steady.on THEN {[status |-> "ok", features |-> steady.features]} ELSE Responses

\* Once the upstream has settled, steady.n counts the ring insertions since
\* (up to MAX_QUAKES + 1).
FetchSeismic(Responses, Nows) ==
    /\ pc = "seismic"
    /\ \E resp \in Upstream(Responses), now \in Nows :
         /\ feed' = [status |-> resp.status, features |-> resp.features, now |-> now]
         /\ IF Decoded(resp)
            THEN LET scanned == ScanFeatures(FeaturesOf(resp), 1, g_quakes,
                                             CountAtFetchStart(g_quake_count),
                                             min_magnitude, now)
                 IN  \E sorted \in qsort(scanned.quakes, scanned.count) :
                       LET a == check_for_quake_alerts(sorted, scanned.count,
                                    alert_threshold, g_alerted_ids, g_alerted_ids_count)
                       IN  /\ g_quakes' = sorted
                           /\ g_quake_count' = scanned.count
                           /\ g_alerted_ids' = a.ids
                           /\ g_alerted_ids_count' = a.n
                           /\ bells' = [k \in 1..Len(a.events) |-> a.events[k].id]
                           /\ hist' = RecordEvents(hist, a.events)
                           /\ steady' = IF steady.on
                                        THEN [steady EXCEPT
                                                 !.n = Min(@ + Len(a.events), MAX_QUAKES + 1)]
                                        ELSE steady
            ELSE /\ g_quake_count' = CountAtFetchStart(g_quake_count)
                 /\ UNCHANGED <<g_quakes, g_alerted_ids, g_alerted_ids_count, bells,
                                hist, steady>>
    /\ pc' = "lightning"
    /\ UNCHANGED <<argv, argi, cfgVars, weatherVars, g_is_storm_active, storm_bell,
                   banner, forecast>>

----------------------------------------------------------------------------
(* Lightning pipeline: fetch_lightning_data, lines 185-227 *)

ZeroHourly == [i \in 0..(HOURLY_SLOTS - 1) |-> 0]

\* A fetch without the reset of line 189: a failure leaves the old code.
CurrentCode_KeepsOnFailure(resp) ==
    IF resp.status = "ok" /\ resp.current # <<>> THEN resp.current[1] ELSE g_weather_code

\* Lines 208-211: current.weather_code when "current" is an object, else the 0 of line 189.
CurrentCode(resp) ==
    IF resp.status = "ok" /\ resp.current # <<>> THEN resp.current[1] ELSE 0

\* Lines 212-220: the first six entries of hourly.weather_code over the zeros of line 190.
HourlyCodes(resp) ==
    [i \in 0..(HOURLY_SLOTS - 1) |->
        IF resp.status = "ok" /\ i < Len(resp.hourly) THEN resp.hourly[i + 1] ELSE 0]

FetchLightning(Responses) ==
    /\ pc = "lightning"
    /\ \E resp \in Responses :
         /\ g_weather_code' = CurrentCode(resp)
         /\ g_hourly_weather_codes' = HourlyCodes(resp)
         /\ forecast' = resp.status
    /\ pc' = "render"
    /\ UNCHANGED <<argv, argi, cfgVars, seismicVars, g_is_storm_active,
                   bells, storm_bell, banner, feed, hist, steady>>

----------------------------------------------------------------------------
(* Display renderer: render_display, lines 231-272 *)

IsStormCode(c) ==
    c = LIGHTNING_ALERT_CODE_1 \/ c = LIGHTNING_ALERT_CODE_2 \/ c = LIGHTNING_ALERT_CODE_3

\* Line 247.
IsWarning(code) == IsStormCode(code)

\* A scan of the hourly codes that starts at the current hour.
IsWatch_FromIndexZero(hourly) == \E i \in 0..(HOURLY_SLOTS - 1) : IsStormCode(hourly[i])

\* Lines 248-254: hourly indices 1 to 5.
IsWatch(hourly) == \E i \in 1..(HOURLY_SLOTS - 1) : IsStormCode(hourly[i])

\* A renderer that rings on every warning render.
LightningStatus_LevelTriggered(code, hourly, active) ==
    IF IsWarning(code)
    THEN [banner |-> "warning", bell |-> TRUE, active |-> TRUE]
    ELSE IF IsWatch(hourly)
         THEN [banner |-> "watch", bell |-> FALSE, active |-> FALSE]
         ELSE [banner |-> "clear", bell |-> FALSE, active |-> FALSE]

\* A renderer whose watch branch leaves the flag as it was.
LightningStatus_WatchKeepsFlag(code, hourly, active) ==
    IF IsWarning(code)
    THEN [banner |-> "warning", bell |-> ~active, active |-> TRUE]
    ELSE IF IsWatch(hourly)
         THEN [banner |-> "watch", bell |-> FALSE, active |-> active]
         ELSE [banner |-> "clear", bell |-> FALSE, active |-> FALSE]

\* Lines 256-271: the banner printed, the "\a" written and the flag left behind.
LightningStatus(code, hourly, active) ==
    IF IsWarning(code)
    THEN [banner |-> "warning", bell |-> ~active, active |-> TRUE]
    ELSE IF IsWatch(hourly)
         THEN [banner |-> "watch", bell |-> FALSE, active |-> FALSE]
         ELSE [banner |-> "clear", bell |-> FALSE, active |-> FALSE]

\* A renderer that also empties the quake list.
Render_ClearsList ==
    /\ pc = "render"
    /\ LET r == LightningStatus(g_weather_code, g_hourly_weather_codes, g_is_storm_active)
       IN  /\ banner' = r.banner
           /\ storm_bell' = r.bell
           /\ g_is_storm_active' = r.active
    /\ g_quake_count' = 0
    /\ pc' = "sleep"
    /\ UNCHANGED <<argv, argi, cfgVars, g_quakes, g_alerted_ids, g_alerted_ids_count,
                   weatherVars, bells, feed, hist, forecast, steady>>

\* Lines 111 and 231-272: render_display as one step of the driver loop.
Render ==
    /\ pc = "render"
    /\ LET r == LightningStatus(g_weather_code, g_hourly_weather_codes, g_is_storm_active)
       IN  /\ banner' = r.banner
           /\ storm_bell' = r.bell
           /\ g_is_storm_active' = r.active
    /\ pc' = "sleep"
    /\ UNCHANGED <<argv, argi, cfgVars, seismicVars, weatherVars, bells, feed, hist,
                   forecast, steady>>

\* A loop that comes back from the sleep at the lightning fetch.
Sleep_RestartsAtLightning ==
    /\ pc = "sleep"
    /\ pc' = "lightning"
    /\ bells' = <<>>
    /\ storm_bell' = FALSE
    /\ feed' = NoFeed
    /\ forecast' = "none"
    /\ UNCHANGED <<argv, argi, cfgVars, seismicVars, weatherVars,
                   g_is_storm_active, banner, hist, steady>>

\* Lines 113-114: sleep, then the next cycle; the cycle's outputs start afresh.
Sleep ==
    /\ pc = "sleep"
    /\ pc' = "seismic"
    /\ bells' = <<>>
    /\ storm_bell' = FALSE
    /\ feed' = NoFeed
    /\ forecast' = "none"
    /\ UNCHANGED <<argv, argi, cfgVars, seismicVars, weatherVars,
                   g_is_storm_active, banner, hist, steady>>

----------------------------------------------------------------------------
(* Initial state and inputs *)

\* The state at entry to main with the given possible argument lists.
InitWith(Argvs) ==
    /\ argv \in Argvs
    /\ argi = 1
    /\ min_magnitude = 0
    /\ alert_threshold = MAJOR_QUAKE_THRESHOLD
    /\ unknown_args = <<>>
    /\ g_latitude = DEFAULT_LATITUDE
    /\ g_longitude = DEFAULT_LONGITUDE
    /\ pc = "args"
    /\ g_quakes = [k \in 1..MAX_QUAKES |-> ZeroQuake]
    /\ g_quake_count = 0
    /\ g_alerted_ids = [k \in 1..MAX_ALERTED_IDS |-> ""]
    /\ g_alerted_ids_count = 0
    /\ g_weather_code = 0
    /\ g_hourly_weather_codes = ZeroHourly
    /\ g_is_storm_active = FALSE
    /\ bells = <<>>
    /\ storm_bell = FALSE
    /\ banner = "none"
    /\ feed = NoFeed
    /\ hist = [y \in IdStrings |-> NoHist]
    /\ forecast = "none"
    /\ steady = NotSteady

SeqsUpTo(S, n) == UNION {[1..k -> S] : k \in 0..n}

Feature(mag, place, id, time) == [mag |-> mag, place |-> place, id |-> id, time |-> time]

FailedSeismic == {[status |-> st, features |-> <<>>] : st \in {"transport", "badjson", "nofeatures"}}
OkSeismic(Features, n) == {[status |-> "ok", features |-> f] : f \in SeqsUpTo(Features, n)}

LightningResponse(st, cur, hourly) == [status |-> st, current |-> cur, hourly |-> hourly]
QuietLightning == {LightningResponse("ok", <<0>>, <<0, 0, 0, 0, 0, 0>>),
                   LightningResponse("transport", <<>>, <<>>)}

\* Seismic inputs of Spec.  Every feature has a real magnitude and no place;
\* Quake(x, m) carries identifier x, Anonymous(m) carries none.
Quake(x, m) == Feature(JReal(m), JNull, JStr(x), JInt(940000))
Anonymous(m) == Feature(JReal(m), JNull, JNull, JInt(940000))
IdOf(k) == "id" \o ToString(k)

\* One quake alone, at or below the default alert threshold; a pair of quakes,
\* which repeats an identifier when k = 1; a quake without identifier; and a
\* burst of MAX_ALERTED_IDS + 1 quakes of rising magnitude in one feed.
RingFeeds ==
    {<<Quake(x, m)>> : x \in IdNames, m \in {500, 600}}
    \cup {<<Quake(IdOf(k), 600), Quake(IdOf(1), 700)>> : k \in 1..(MAX_ALERTED_IDS + 1)}
    \cup {<<Anonymous(600)>>, <<>>}
    \cup {[k \in 1..(MAX_ALERTED_IDS + 1) |-> Quake(IdOf(k), 600 + 10 * k)]}
RingResponses == {[status |-> "ok", features |-> f] : f \in RingFeeds} \cup FailedSeismic
RingArgvs == {<<"x">>}
RingNows == {1000}

Init == InitWith(RingArgvs)
Next ==
    \/ ParseArg
    \/ StartMonitor
    \/ FetchSeismic(RingResponses, RingNows)
    \/ FetchLightning(QuietLightning)
    \/ Render
    \/ Sleep
Spec == Init /\ [][Next]_vars

----------------------------------------------------------------------------
(* SpecList: the ranked list under a display filter of 5.0 *)

\* A located quake; a quake with neither place nor id; a quake below the
\* filter; a quake whose magnitude is written as a JSON integer.
Located == Feature(JReal(700), JStr("Alaska"), JStr(IdOf(1)), JInt(940000))
Bare == Feature(JReal(500), JNull, JNull, JInt(940000))
Minor == Feature(JReal(300), JStr("Chile"), JStr(IdOf(2)), JInt(940000))
Whole == Feature(JInt(6), JStr("Fiji"), JStr(IdOf(3)), JInt(940000))

\* Feeds of up to two of the first three, the last alone, and two feeds longer than the list: one whose
\* strongest quake comes last, one that starts with a quake below the filter.
ListFeeds ==
    SeqsUpTo({Located, Bare, Minor}, 2)
    \cup {<<Whole>>}
    \cup {[k \in 1..(MAX_QUAKES + 1) |-> IF k = MAX_QUAKES + 1 THEN Located ELSE Bare],
          [k \in 1..(MAX_QUAKES + 1) |-> IF k = 1 THEN Minor ELSE Bare]}
ListResponses == {[status |-> "ok", features |-> f] : f \in ListFeeds} \cup FailedSeismic
ListArgvs == {<<"-q", "5">>, <<"-q", "5", "test">>}
ListNows == {970, 1125}

InitList == InitWith(ListArgvs)
NextList ==
    \/ ParseArg
    \/ StartMonitor
    \/ FetchSeismic(ListResponses, ListNows)
    \/ FetchLightning(QuietLightning)
    \/ Render
    \/ Sleep
SpecList == InitList /\ [][NextList]_vars

----------------------------------------------------------------------------
(* SpecStorm: the lightning pipeline and the renderer *)

QuietSeismic == {[status |-> "ok", features |-> <<>>], [status |-> "transport", features |-> <<>>]}

\* The seismic side of SpecStorm: nothing, a failure, or one major quake.
StormSeismic == QuietSeismic \cup {[status |-> "ok", features |-> <<Quake(IdOf(1), 700)>>]}

\* Hourly arrays: a storm code at one index k of six, all clear, arrays
\* shorter and longer than six entries.
StormHourly ==
    {[i \in 1..HOURLY_SLOTS |-> IF i = k + 1 THEN c ELSE 0] :
        k \in 0..(HOURLY_SLOTS - 1), c \in {LIGHTNING_ALERT_CODE_1}}
    \cup {<<0, 0, 0, 0, 0, 0>>, <<>>, <<0, 0, 96>>, <<0, 0, 0, 0, 0, 99>>,
          <<0, 0, 0, 0, 0, 0, 95>>, <<3, 61, 80, 0, 0, 0>>}
StormCurrent == {<<>>, <<0>>, <<3>>, <<95>>, <<96>>, <<99>>}
StormResponses ==
    {LightningResponse("ok", c, h) : c \in StormCurrent, h \in StormHourly}
    \cup {LightningResponse(st, <<>>, <<>>) : st \in {"transport", "badjson"}}
StormArgvs == {<<"-l", "40.71", "-74.00">>}

InitStorm == InitWith(StormArgvs)
NextStorm ==
    \/ ParseArg
    \/ StartMonitor
    \/ FetchSeismic(StormSeismic, RingNows)
    \/ FetchLightning(StormResponses)
    \/ Render
    \/ Sleep
SpecStorm == InitStorm /\ [][NextStorm]_vars

\* Every call of the loop body returns and sleep(3) ends, so a step that can
\* be taken is taken.
SpecStormLive == SpecStorm /\ WF_vars(NextStorm)

----------------------------------------------------------------------------
(* SpecTime: one major quake per feed, of every age around the unit change *)

\* Ages in seconds at the earlier of the two fetch times: in the future, zero,
\* either side of one minute, of two minutes and of one hour.
TimeAges == {-5, 0, 30, 59, 60, 61, 119, 120, 185, 3599, 3600, 3601}

\* Event times in milliseconds, on a whole second and just short of the next;
\* and a "time" member that is not an integer.
EventTimes ==
    {JInt((4000 - d) * 1000 + r) : d \in TimeAges, r \in {0, 999}} \cup {JNull}
TimeFeeds == {<<Feature(JReal(700), JNull, JStr(IdOf(1)), t)>> : t \in EventTimes}
TimeResponses == {[status |-> "ok", features |-> f] : f \in TimeFeeds}
TimeNows == {4000, 4001}

InitTime == InitWith(RingArgvs)
NextTime ==
    \/ ParseArg
    \/ StartMonitor
    \/ FetchSeismic(TimeResponses, TimeNows)
    \/ FetchLightning(QuietLightning)
    \/ Render
    \/ Sleep
SpecTime == InitTime /\ [][NextTime]_vars

----------------------------------------------------------------------------
(* SpecSteady: an upstream that settles on one feed *)

\* Before the upstream settles: one major quake per feed, with the first or
\* the last identifier, or a failure.
UnsettledResponses ==
    {[status |-> "ok", features |-> <<Quake(IdOf(k), 600)>>] : k \in {1, MAX_ALERTED_IDS + 1}}
    \cup {[status |-> "transport", features |-> <<>>]}

\* The feeds it can settle on: two quakes, of one identifier when k = 1; two
\* quakes of equal magnitude; one quake below the alert threshold; a burst of
\* more identifiers than the ring holds; a quake without identifier.
SteadyFeeds ==
    {<<Quake(IdOf(k), 600), Quake(IdOf(1), 700)>> : k \in 1..(MAX_ALERTED_IDS + 1)}
    \cup {<<Quake(IdOf(1), 600), Quake(IdOf(2), 600)>>, <<Quake(IdOf(1), 500)>>}
    \cup {[k \in 1..(MAX_ALERTED_IDS + 1) |-> Quake(IdOf(k), 600 + 10 * k)]}
    \cup {<<Anonymous(600)>>}
InitSteady == InitWith(RingArgvs)
NextSteady ==
    \/ ParseArg
    \/ StartMonitor
    \/ BecomeSteady(SteadyFeeds)
    \/ FetchSeismic(UnsettledResponses, RingNows)
    \/ FetchLightning(QuietLightning)
    \/ Render
    \/ Sleep
\* Every call of the loop body returns and sleep(3) ends.
SpecSteady == InitSteady /\ [][NextSteady]_vars /\ WF_vars(NextSteady)

----------------------------------------------------------------------------
(* SpecArgs: argument parsing over every short argument list *)

InitArgs == InitWith(SeqsUpTo(ArgTokens, MaxArgs))
NextArgs ==
    \/ ParseArg
    \/ StartMonitor
SpecArgs == InitArgs /\ [][NextArgs]_vars

----------------------------------------------------------------------------
(* Properties *)

StormCodes == {95, 96, 99}
ListIds == [k \in 1..g_quake_count |-> g_quakes[k].id]

\* s is t with some entries left out.
RECURSIVE IsSubsequence(_, _)
IsSubsequence(s, t) ==
    IF s = <<>> THEN TRUE
    ELSE IF t = <<>> THEN FALSE
    ELSE IF Head(s) = Head(t) THEN IsSubsequence(Tail(s), Tail(t))
    ELSE IsSubsequence(s, Tail(t))

\* C1: an identifier that has had an audible alert gets another one only after
\* it was pushed out of the ring, and by then at least MAX_ALERTED_IDS distinct
\* identifiers have been alerted (and so inserted) since its previous alert.
C1_NoSecondAlertWithoutEviction ==
    \A y \in IdStrings : \A r \in hist[y].realerts : r[2] /\ r[1] >= MAX_ALERTED_IDS

\* C1 witness: some identifier was alerted a second time, after its eviction.
C1_Witness == \E y \in IdNames : <<MAX_ALERTED_IDS, TRUE>> \in hist[y].realerts

\* C2: a render rings the storm bell exactly when it selects Warning and the
\* flag was false on entry, which is exactly when the previous render (if any)
\* did not select Warning; so a run of Warning renders rings once, at its start.
C2_StormBellEdgeTriggered ==
    [][pc = "render" =>
          /\ storm_bell' <=> (banner' = "warning" /\ ~g_is_storm_active)
          /\ g_is_storm_active <=> (banner = "warning")]_vars

\* C2 witness: a Warning render that follows a Warning render and stays silent.
C2_Witness ==
    pc = "sleep" /\ banner = "warning" /\ ~storm_bell /\ g_weather_code \in StormCodes

\* C3: the ring holds at most MAX_ALERTED_IDS identifiers, all different.
C3_RingBoundedNoDuplicates ==
    /\ g_alerted_ids_count \in 0..MAX_ALERTED_IDS
    /\ \A i, j \in 1..g_alerted_ids_count :
         g_alerted_ids[i] = g_alerted_ids[j] => i = j

\* C3 witness: one cycle alerted more new quakes than the ring holds, and the ring is full.
C3_Witness ==
    pc = "lightning" /\ Len(bells) > MAX_ALERTED_IDS /\ g_alerted_ids_count = MAX_ALERTED_IDS

\* C4: the ranked list has at most MAX_QUAKES entries, each at or above min_magnitude.
C4_ListBoundedAndFiltered ==
    /\ g_quake_count \in 0..MAX_QUAKES
    /\ \A i \in 1..g_quake_count : g_quakes[i].mag >= min_magnitude

\* C4 witness: a feed longer than the list, with a quake below the filter, filled the list.
C4_Witness ==
    /\ pc = "lightning"
    /\ feed.status = "ok"
    /\ Len(feed.features) > MAX_QUAKES
    /\ \E k \in 1..Len(feed.features) : json_real_value(feed.features[k].mag) < min_magnitude
    /\ g_quake_count = MAX_QUAKES

\* C5: the ranked list is in non-increasing order of magnitude, in every state
\* the renderer can see, and the alerts of the cycle were rung in list order.
C5_ListSortedDescending ==
    /\ \A i, j \in 1..g_quake_count : i < j => g_quakes[i].mag >= g_quakes[j].mag
    /\ pc \in {"lightning", "render", "sleep"} => IsSubsequence(bells, ListIds)

\* C5 witness: a feed listing a weaker quake before a stronger one was ranked.
C5_Witness ==
    /\ pc = "render"
    /\ feed.status = "ok"
    /\ Len(feed.features) = 2
    /\ json_real_value(feed.features[1].mag) < json_real_value(feed.features[2].mag)
    /\ g_quake_count = 2
    /\ g_quakes[1].mag > g_quakes[2].mag
    /\ bells # <<>>

\* C6: after a render the banner is Warning when the current code is a storm
\* code, else Watch when an hourly code at index 1..5 is one, else All-clear.
C6_BannerPriority ==
    pc = "sleep" =>
        banner = IF g_weather_code \in StormCodes THEN "warning"
                 ELSE IF \E i \in 1..5 : g_hourly_weather_codes[i] \in StormCodes
                      THEN "watch"
                      ELSE "clear"

\* C6 witness: only the current hour (index 0) carries a storm code: All-clear.
C6_Witness ==
    /\ pc = "sleep"
    /\ banner = "clear"
    /\ g_hourly_weather_codes[0] \in StormCodes
    /\ g_weather_code \notin StormCodes

\* C7: the flag is true exactly when the last render selected Warning (and
\* false before the first render), whatever the flag was when that render began.
C7_FlagIffWarning == g_is_storm_active <=> (banner = "warning")

\* C7 witness: a Warning render that found the flag false (it rang) and left it true.
C7_Witness == pc = "sleep" /\ banner = "warning" /\ storm_bell /\ g_is_storm_active

\* The record a feature alone determines: absent place and id give empty text.
Fresh(properties, now) ==
    [mag |-> json_real_value(properties.mag),
     place |-> IF json_is_string(properties.place) THEN properties.place.s ELSE "",
     id |-> IF json_is_string(properties.id) THEN properties.id.s ELSE "",
     time_ago |-> format_time_ago(json_integer_value(properties.time), now)]

\* C8: after a refresh every record of the list is determined by a feature of
\* this cycle's feed and this cycle's clock alone.
C8_RecordsFromCurrentFeedOnly ==
    (pc = "lightning" /\ feed.status = "ok") =>
        \A i \in 1..g_quake_count :
            \E k \in 1..Len(feed.features) : g_quakes[i] = Fresh(feed.features[k], feed.now)

\* C9: every feature of a feed that fits the list, with an identifier, a real
\* magnitude at or above the alert threshold and no entry in the ring, is
\* alerted in that refresh, whatever the display filter.
C9_AlertIndependentOfDisplayFilter ==
    [][(pc = "seismic" /\ feed'.status = "ok" /\ Len(feed'.features) <= MAX_QUAKES) =>
          \A k \in 1..Len(feed'.features) :
              LET properties == feed'.features[k]
              IN  (/\ json_is_string(properties.id)
                   /\ properties.mag.t = "real"
                   /\ properties.mag.n >= alert_threshold
                   /\ ~AlreadyAlerted(properties.id.s, g_alerted_ids, g_alerted_ids_count))
                  => \E b \in 1..Len(bells') : bells'[b] = properties.id.s]_vars

\* Argument lists made only of "test" and of "-q" followed by a number.
IsNumber(s) == s \in {"5", "7", "-3"}
RECURSIVE OnlyTestAndQ(_)
OnlyTestAndQ(args) ==
    IF args = <<>> THEN TRUE
    ELSE IF Head(args) = "test" THEN OnlyTestAndQ(Tail(args))
    ELSE /\ Len(args) >= 2
         /\ Head(args) = "-q"
         /\ IsNumber(args[2])
         /\ OnlyTestAndQ(Tail(Tail(args)))

\* The clamped value of the last "-q" of such a list, 0 when there is none.
RECURSIVE LastQ(_, _)
LastQ(args, sofar) ==
    IF args = <<>> THEN sofar
    ELSE IF Head(args) = "test" THEN LastQ(Tail(args), sofar)
    ELSE LastQ(Tail(Tail(args)), IF Atof(args[2]) < 0 THEN 0 ELSE Atof(args[2]))

\* C10: when the arguments contain "test", before or after "-q", parsing ends
\* with alert_threshold 0 and min_magnitude the clamped "-q" value (0 without "-q").
C10_TestForcesThresholdZero ==
    (pc = "seismic" /\ OnlyTestAndQ(argv) /\ \E i \in 1..Len(argv) : argv[i] = "test") =>
        (alert_threshold = 0 /\ min_magnitude = LastQ(argv, 0))

\* The larger of two numbers.
Max(a, b) == IF a >= b THEN a ELSE b

\* C11: "-q v" sets min_magnitude and alert_threshold to max(v, 0) and nothing
\* else; "-l lat lon" sets the location and nothing else; any other argument
\* but "test" (a "-q" or "-l" without enough values included) is reported and
\* changes none of them; parsing then goes on with the next unread argument.
C11_ArgumentEffects ==
    [][(pc = "args" /\ argi <= Len(argv)) =>
          IF argv[argi] = "-q" /\ argi + 1 <= Len(argv)
          THEN /\ min_magnitude' = Max(Atof(argv[argi + 1]), 0)
               /\ alert_threshold' = Max(Atof(argv[argi + 1]), 0)
               /\ argi' = argi + 2
               /\ UNCHANGED <<g_latitude, g_longitude, unknown_args>>
          ELSE IF argv[argi] = "-l" /\ argi + 2 <= Len(argv)
          THEN /\ g_latitude' = Atof(argv[argi + 1])
               /\ g_longitude' = Atof(argv[argi + 2])
               /\ argi' = argi + 3
               /\ UNCHANGED <<min_magnitude, alert_threshold, unknown_args>>
          ELSE IF argv[argi] = "test"
          THEN argi' = argi + 1
          ELSE /\ unknown_args' = Append(unknown_args, argv[argi])
               /\ argi' = argi + 1
               /\ UNCHANGED <<min_magnitude, alert_threshold, g_latitude, g_longitude>>]_vars

\* C11 witness: a "-q" with a value was applied, then a "-l" without values
\* was reported, and parsing reached the end.
C11_Witness ==
    /\ pc = "seismic"
    /\ argv = <<"-q", "5", "-l">>
    /\ unknown_args = <<"-l">>
    /\ min_magnitude = 500
    /\ alert_threshold = 500
    /\ g_latitude = DEFAULT_LATITUDE

\* C12: when this cycle's lightning fetch failed, the snapshot is code 0 and
\* six hourly zeros, and the render of the cycle shows All-clear, leaves the
\* flag false and rings no storm bell, whatever the previous cycle showed.
C12_FailedForecastIsAllClear ==
    forecast \in {"transport", "badjson"} =>
        /\ g_weather_code = 0
        /\ g_hourly_weather_codes = ZeroHourly
        /\ pc = "sleep" => (banner = "clear" /\ ~g_is_storm_active /\ ~storm_bell)

\* C12 witness: the fetch failed in the cycle after a Warning render (the
\* banner and the flag are still those of that render).
C12_Witness ==
    /\ pc = "render"
    /\ forecast = "transport"
    /\ banner = "warning"
    /\ g_is_storm_active
    /\ g_weather_code = 0

SeismicFailures == {"transport", "badjson", "nofeatures"}

\* The features of a feed that pass the display filter, in feed order.
Matching(features, minmag) ==
    {i \in 1..Len(features) : json_real_value(features[i].mag) >= minmag}

\* C13: a seismic fetch that fails (transport, undecodable body, no features
\* array) leaves the list empty, rings no quake bell, leaves the ring as it was
\* and goes on to the lightning fetch; a fetch that succeeds fills the list
\* from its feed alone, whatever the cycle before did.
C13_FailedSeismicFetchIsNotFatal ==
    [][pc = "seismic" /\ pc' # "seismic" =>
          /\ pc' = "lightning"
          /\ feed'.status \in SeismicFailures =>
                /\ g_quake_count' = 0
                /\ bells' = <<>>
                /\ g_alerted_ids' = g_alerted_ids
                /\ g_alerted_ids_count' = g_alerted_ids_count
          /\ feed'.status = "ok" =>
                g_quake_count' =
                    Min(Cardinality(Matching(feed'.features, min_magnitude)), MAX_QUAKES)
    ]_vars

\* C13 witness: a failed fetch in a cycle after one that listed and alerted a
\* quake: the list is empty, the ring still holds the earlier identifier.
C13_Witness ==
    /\ pc = "lightning"
    /\ feed.status \in SeismicFailures
    /\ g_quake_count = 0
    /\ g_quakes[1].mag >= MAJOR_QUAKE_THRESHOLD
    /\ g_alerted_ids_count > 0
    /\ bells = <<>>

\* The step that follows each position of the driver loop, lines 109-115.
NextInCycle(p) ==
    CASE p = "seismic" -> "lightning"
      [] p = "lightning" -> "render"
      [] p = "render" -> "sleep"
      [] p = "sleep" -> "seismic"
      [] OTHER -> p

LoopPositions == {"seismic", "lightning", "render", "sleep"}

\* C14: once the loop is entered, every step moves from seismic refresh to
\* lightning refresh to render to sleep and back to seismic refresh, whatever
\* the fetches returned, and the loop never ends: every position comes again.
C14_CycleOrderForever ==
    /\ [][(pc \in LoopPositions) => (pc' = NextInCycle(pc))]_vars
    /\ \A p \in LoopPositions : []<>(pc = p)

\* C14 witness: a cycle in which both fetches failed has reached its sleep.
C14_Witness ==
    /\ pc = "sleep"
    /\ feed.status = "transport"
    /\ forecast = "transport"

\* C15: a render changes neither the quake list and its count, nor the ring
\* and its count, nor the weather snapshot, nor the monitor location.
C15_RenderMutatesOnlyStormFlag ==
    [][pc = "render" =>
          UNCHANGED <<g_quakes, g_quake_count, g_alerted_ids, g_alerted_ids_count,
                      g_weather_code, g_hourly_weather_codes, g_latitude, g_longitude>>
    ]_vars

\* C15 witness: a render that raised the flag and rang the storm bell with a
\* quake listed and alerted, at the location given on the command line.
C15_Witness ==
    /\ pc = "sleep"
    /\ storm_bell
    /\ g_is_storm_active
    /\ g_quake_count > 0
    /\ g_alerted_ids_count > 0
    /\ g_weather_code = LIGHTNING_ALERT_CODE_1
    /\ g_latitude = 4071

\* The ring as the sequence of its entries, oldest first.
Ring == [k \in 1..g_alerted_ids_count |-> g_alerted_ids[k]]

\* First in, first out: a full ring loses its oldest entry, the others keep
\* their order, and the new identifier is the newest entry.
FifoInsert(ring, id) ==
    IF Len(ring) = MAX_ALERTED_IDS THEN Append(Tail(ring), id) ELSE Append(ring, id)

RECURSIVE FifoInsertAll(_, _)
FifoInsertAll(ring, ids) ==
    IF ids = <<>> THEN ring ELSE FifoInsertAll(FifoInsert(ring, Head(ids)), Tail(ids))

\* C16: over a seismic refresh the ring becomes the old ring with the
\* identifiers that rang, in the order they rang, inserted first in first out;
\* a quake found in the ring moves nothing.
C16_RingInsertionIsFifo ==
    [][pc = "seismic" => Ring' = FifoInsertAll(Ring, bells')]_vars

\* C16 witness: with the ring full, the stronger listed quake was found in the
\* ring as its oldest entry, the weaker one rang, and the insertion pushed the
\* one just found out of the ring.
C16_Witness ==
    /\ pc = "lightning"
    /\ g_quake_count = 2
    /\ g_alerted_ids_count = MAX_ALERTED_IDS
    /\ bells = <<g_quakes[2].id>>
    /\ g_alerted_ids[MAX_ALERTED_IDS] = g_quakes[2].id
    /\ hist[g_quakes[1].id].evicted
    /\ \A k \in 1..MAX_ALERTED_IDS : g_alerted_ids[k] # g_quakes[1].id

\* The first MAX_QUAKES features of a feed, in feed order, that pass the filter.
FirstMatching(features, minmag) ==
    {i \in Matching(features, minmag) :
        Cardinality({j \in Matching(features, minmag) : j < i}) < MAX_QUAKES}

\* The one-to-one assignments of the features in F to the first n list slots.
Placements(F, n) ==
    {slot \in [F -> 1..n] : \A a, b \in F : slot[a] = slot[b] => a = b}

\* C17: after a successful seismic refresh the list holds exactly the first
\* MAX_QUAKES features, in feed order, whose magnitude is at least
\* min_magnitude: one record for each of them, with its magnitude and time
\* label and with its place and identifier where the feed gives them, and no
\* record for any later feature.
C17_CapInFeedOrder ==
    (pc \in {"lightning", "render", "sleep"} /\ feed.status = "ok") =>
        LET F == FirstMatching(feed.features, min_magnitude)
        IN  /\ g_quake_count = Cardinality(F)
            /\ \E slot \in Placements(F, g_quake_count) :
                 \A i \in F :
                    LET properties == feed.features[i]
                        quake == g_quakes[slot[i]]
                    IN  /\ quake.mag = json_real_value(properties.mag)
                        /\ quake.time_ago =
                              format_time_ago(json_integer_value(properties.time), feed.now)
                        /\ json_is_string(properties.id) => quake.id = properties.id.s
                        /\ json_is_string(properties.place) => quake.place = properties.place.s

\* C17 witness: a feed of MAX_QUAKES + 1 matching features whose last one is
\* stronger than all the others: the list is full and the last one is not in it.
C17_Witness ==
    /\ pc = "lightning"
    /\ feed.status = "ok"
    /\ Len(feed.features) = MAX_QUAKES + 1
    /\ Matching(feed.features, min_magnitude) = 1..(MAX_QUAKES + 1)
    /\ g_quake_count = MAX_QUAKES
    /\ \A k \in 1..MAX_QUAKES :
          g_quakes[k].mag < json_real_value(feed.features[MAX_QUAKES + 1].mag)

RingIds == {g_alerted_ids[k] : k \in 1..g_alerted_ids_count}

\* C18: the ring is left as it is by argument parsing, lightning refresh,
\* render and sleep, by a failed seismic fetch and by any seismic refresh that
\* rings no bell; the k-th oldest identifier leaves the ring only in a seismic
\* refresh that inserts enough new identifiers to fill the ring and then push
\* out k entries from the oldest end.
C18_RingEntriesLeaveOnlyByEviction ==
    [][/\ (pc # "seismic" \/ bells' = <<>> \/ feed'.status \in SeismicFailures) =>
             UNCHANGED <<g_alerted_ids, g_alerted_ids_count>>
       /\ \A k \in 1..g_alerted_ids_count :
             (\A j \in 1..g_alerted_ids_count' : g_alerted_ids'[j] # g_alerted_ids[k]) =>
                 /\ pc = "seismic"
                 /\ g_alerted_ids_count' = MAX_ALERTED_IDS
                 /\ Len(bells') >= (MAX_ALERTED_IDS - g_alerted_ids_count) + k
    ]_vars

\* C18 witness: a refresh listed an already alerted quake, now below the alert
\* threshold; no bell rang and its identifier is still in the ring.
C18_Witness ==
    /\ pc = "lightning"
    /\ feed.status = "ok"
    /\ bells = <<>>
    /\ g_quake_count = 1
    /\ g_quakes[1].mag < alert_threshold
    /\ g_quakes[1].id \in RingIds

\* The label of an age of d whole seconds: seconds below one minute, whole
\* minutes from there on.
AgeLabel(d) == IF d < 60 THEN ToString(d) \o "s ago" ELSE ToString(d \div 60) \o "m ago"

\* C19: the time label of a listed quake is that of d = now - (event time in
\* ms div 1000): "<d>s ago" below 60 and "<d div 60>m ago" from 60 on, with no
\* larger unit: 30 gives "30s ago", 185 gives "3m ago", 3600 gives "60m ago".
C19_TimeLabel ==
    (pc \in {"lightning", "render", "sleep"} /\ feed.status = "ok" /\ Len(feed.features) = 1) =>
        LET ms == json_integer_value(feed.features[1].time)
            d == feed.now - (ms \div 1000)
            label == g_quakes[1].time_ago
        IN  /\ g_quake_count = 1
            /\ label = AgeLabel(d)
            /\ d = 30 => label = "30s ago"
            /\ d = 59 => label = "59s ago"
            /\ d = 60 => label = "1m ago"
            /\ d = 185 => label = "3m ago"
            /\ d = 3600 => label = "60m ago"

\* C19 witness: a quake of exactly one hour ago is listed, labelled in minutes.
C19_Witness ==
    /\ pc = "lightning"
    /\ g_quake_count = 1
    /\ feed.now - (json_integer_value(feed.features[1].time) \div 1000) = 3600
    /\ g_quakes[1].time_ago = "60m ago"

\* The distinct identifiers of the alert-eligible quakes a feed puts in the list.
EligibleIds(features) ==
    {features[i].id.s : i \in {j \in FirstMatching(features, min_magnitude) :
                                  Eligible(json_real_value(features[j].mag), alert_threshold)}}

\* The upstream has settled on a feed whose features all carry an identifier
\* and whose eligible quakes have no more identifiers than the ring holds.
SettledWithinRing ==
    /\ steady.on
    /\ \A i \in 1..Len(steady.features) : json_is_string(steady.features[i].id)
    /\ Cardinality(EligibleIds(steady.features)) <= MAX_ALERTED_IDS

\* C20: once the upstream has settled on such a feed, the ring insertions made
\* since never outnumber the distinct eligible identifiers, whatever the ring
\* held before, and from some cycle on no quake bell rings.
C20_AlertsCease ==
    /\ [](SettledWithinRing => steady.n <= Cardinality(EligibleIds(steady.features)))
    /\ <>[](SettledWithinRing => bells = <<>>)

\* C20 witness: settled on two eligible identifiers with other identifiers
\* alerted before; both have been inserted since, one of them after it had been
\* pushed out of the ring, and the present refresh rang no bell.
C20_Witness ==
    /\ pc = "lightning"
    /\ SettledWithinRing
    /\ Cardinality(EligibleIds(steady.features)) = 2
    /\ steady.n = 2
    /\ bells = <<>>
    /\ \E x \in EligibleIds(steady.features) : hist[x].realerts # {}
    /\ EligibleIds(steady.features) \subseteq RingIds

====
